---- MODULE Spec2Model ----
(***************************************************************************)
(* A model of fluent-iter (src/src/util.ts): the classifier isIterable /   *)
(* isAsyncIterable, the wrappers FluentIterable and FluentAsyncIterable,   *)
(* the generators their transformation methods define, and the terminal    *)
(* consumers.                                                              *)
(*                                                                         *)
(* JavaScript values are records [k, n, items]; objects with identity      *)
(* (iterators, generator objects, wrappers) live in a heap and are named   *)
(* by their index.  One next() request on a cursor is the operator         *)
(* IterNext (AIterNext for `await cursor.next()`), which runs a generator  *)
(* body up to its next yield, return or throw, as the language does.  A    *)
(* body is written as a chain of operators, one per point where a value    *)
(* comes back into it: XxxItem receives the outcome of the source's        *)
(* next(), XxxCalled the outcome of the supplied function.                 *)
(***************************************************************************)
EXTENDS Integers, Sequences, FiniteSets

VARIABLES heap, calls, pc, args, refs, result

vars == <<heap, calls, pc, args, refs, result>>

(***************************************************************************)
(* Bounds of the model.                                                    *)
(***************************************************************************)
MaxLen == 2
MaxNodes == 5
MaxChain == 2

(***************************************************************************)
(* Values.                                                                 *)
(***************************************************************************)
Undef == [k |-> "undef", n |-> 0, items |-> <<>>]
Num(i) == [k |-> "num", n |-> i, items |-> <<>>]
Bool(b) == [k |-> "bool", n |-> IF b THEN 1 ELSE 0, items |-> <<>>]
Arr(s) == [k |-> "arr", n |-> 0, items |-> s]
\* a string is the sequence of its code units; "" is Str(<<>>)
Chr(c) == [k |-> "chr", n |-> c, items |-> <<>>]
Str(s) == [k |-> "str", n |-> 0, items |-> s]
\* the error a caller-supplied function throws
Err(c) == [k |-> "err", n |-> c, items |-> <<>>]
\* a generator function: its body (op) and the variables it closes over;
\* op "src" is function* () { yield src[1]; yield src[2]; ... }
GenFn(op, src, other, f) ==
    [k |-> "genfn", op |-> op, src |-> src, other |-> other, f |-> f]
AGenFn(op, src, other, f) ==
    [k |-> "agenfn", op |-> op, src |-> src, other |-> other, f |-> f]
\* a reference to the heap object id, by the object's kind
Ref(kind, id) == [k |-> kind, n |-> id, items |-> <<>>]

SeqsUpTo(S, n) == UNION {[1..m -> S] : m \in 0..n}

Nums(s) == [i \in 1..Len(s) |-> Num(s[i])]

Min(a, b) == IF a <= b THEN a ELSE b

(***************************************************************************)
(* The classifier.                                                         *)
(***************************************************************************)
\* Boolean(x)
ToBoolean(x) ==
    CASE x.k = "undef" -> FALSE
      [] x.k = "num" -> x.n # 0
      [] x.k = "bool" -> x.n = 1
      [] x.k = "str" -> Len(x.items) > 0
      [] OTHER -> TRUE

\* typeof x[Symbol.iterator] === 'function': arrays, strings, generator
\* objects, array iterators and FluentIterable wrappers
HasSymbolIterator(x) == x.k \in {"arr", "str", "gen", "arrit", "fluent"}

\* typeof x[Symbol.asyncIterator] === 'function'
HasSymbolAsyncIterator(x) == x.k \in {"agen", "afluent"}

isIterable(x) == ToBoolean(x) /\ HasSymbolIterator(x)

isAsyncIterable(x) == ToBoolean(x) /\ HasSymbolAsyncIterator(x)

\* typeof input === 'function'
IsFunction(x) == x.k \in {"genfn", "agenfn"}

(***************************************************************************)
(* The heap and the world (heap + log of calls of supplied functions).     *)
(***************************************************************************)
Obj(t, op, src, other, f) ==
    [t |-> t, op |-> op, state |-> "start", src |-> src, other |-> other,
     f |-> f, it |-> 0, it2 |-> 0, i |-> 0, phase |-> 0, stack |-> <<>>,
     reqs |-> 0]

World(h, c) == [heap |-> h, calls |-> c]

Alloc(w, o) ==
    [w |-> [w EXCEPT !.heap = Append(@, o)], id |-> Len(w.heap) + 1]

\* the outcome of next(): the world it leaves, and done / value, or thrown
R(w, done, value, thrown) ==
    [w |-> w, done |-> done, value |-> value, thrown |-> thrown]

\* how one pass of a generator body's loop ends: kind is "yield", "done"
\* (the body returned), "throw" or "loop" (the body is back at the head of
\* its loop)
Out(w, kind, value) == [w |-> w, kind |-> kind, value |-> value]

Complete(w, id) == [w EXCEPT !.heap[id].state = "completed"]

Suspend(w, id) == [w EXCEPT !.heap[id].state = "yield"]

Requested(w, id) == [w EXCEPT !.heap[id].reqs = @ + 1]

\* the generator id ends by a throw, by its return, by a yield
Thrown(w, id, e) == R(Complete(w, id), TRUE, e, TRUE)

Returned(w, id, v) == R(Complete(w, id), TRUE, v, FALSE)

Yielded(w, id, v) == R(Suspend(w, id), FALSE, v, FALSE)

(***************************************************************************)
(* Caller-supplied functions: "inc" is x => x + 1 on numbers, "boom2" the  *)
(* identity that throws on 2, "isOdd" and "gt1" predicates on numbers,     *)
(* "odd2" and "gt1b" the same predicates throwing on 2; the reducers are   *)
(* "add", (a, x) => a + x, and "addB", add throwing on 2.                  *)
(***************************************************************************)
Throws(f, x) == f \in {"boom2", "odd2", "gt1b", "addB"} /\ x = Num(2)

Apply(f, x) ==
    CASE f = "inc" -> IF x.k = "num" THEN Num(x.n + 1) ELSE x
      [] f = "boom2" -> x
      [] f \in {"isOdd", "odd2"} -> Bool(x.k = "num" /\ x.n % 2 = 1)
      [] f \in {"gt1", "gt1b"} -> Bool(x.k = "num" /\ x.n > 1)
      [] OTHER -> Undef

Logged(w, f, x) == [w EXCEPT !.calls = Append(@, <<f, x>>)]

\* fn(x)
Call(w, f, x) ==
    IF Throws(f, x) THEN R(Logged(w, f, x), TRUE, Err(1), TRUE)
    ELSE R(Logged(w, f, x), FALSE, Apply(f, x), FALSE)

\* reducer(a, x)
Call2(w, f, a, x) ==
    IF Throws(f, x) THEN R(Logged(w, f, x), TRUE, Err(1), TRUE)
    ELSE R(Logged(w, f, x), FALSE, Num(a.n + x.n), FALSE)

(***************************************************************************)
(* The synchronous side: the iteration protocol and the generators of      *)
(* FluentIterable's transformations.                                       *)
(***************************************************************************)
RECURSIVE GetIterator(_, _)
\* v[Symbol.iterator](): an array or a string gives a fresh array/string
\* iterator, a generator object gives itself, an array iterator gives
\* itself, a FluentIterable gives its input's iterator
GetIterator(w, v) ==
    CASE v.k \in {"arr", "str"} -> Alloc(w, Obj("arrit", "", v, Undef, ""))
      [] v.k \in {"gen", "arrit"} -> [w |-> w, id |-> v.n]
      [] v.k = "fluent" -> GetIterator(w, w.heap[v.n].src)

\* the i-th element an array or a string produces when iterated
ElementAt(v, i) == IF v.k = "str" THEN Str(<<v.items[i]>>) ELSE v.items[i]

\* next() of an array (or string) iterator
ArrNext(w, id) ==
    IF w.heap[id].state # "completed" /\ w.heap[id].i < Len(w.heap[id].src.items)
    THEN R([w EXCEPT !.heap[id].i = @ + 1, !.heap[id].state = "yield"],
           FALSE, ElementAt(w.heap[id].src, w.heap[id].i + 1), FALSE)
    ELSE R(Complete(w, id), TRUE, Undef, FALSE)

\* next() of the generator object of function* () { yield s[1]; ... }
SrcNext(w, id) ==
    IF w.heap[id].i < Len(w.heap[id].src.items)
    THEN R([w EXCEPT !.heap[id].i = @ + 1, !.heap[id].state = "yield"],
           FALSE, w.heap[id].src.items[w.heap[id].i + 1], FALSE)
    ELSE R(Complete(w, id), TRUE, Undef, FALSE)

RECURSIVE IterNext(_, _)
RECURSIVE GenReturn(_, _)
RECURSIVE FilterLoop(_, _)
RECURSIVE ConcatLoop(_, _)
RECURSIVE FlatLoop(_, _)

\* for (const x of ...) is now over the cursor s.id
LoopOver(s, id, phase) ==
    [s.w EXCEPT !.heap[id].it = s.id, !.heap[id].phase = phase]

\* the head of for (const x of a): on the first next() the loop obtains
\* a's iterator
ForOfStart(w, id) ==
    IF w.heap[id].state = "start"
    THEN LoopOver(GetIterator(w, w.heap[id].src), id, 1)
    ELSE w

\* return() of the cursor id, which a for-of loop calls when it is left
\* early: an array iterator has none; a generator suspended at a yield
\* inside a for-of loop leaves that loop, which closes its own cursor
GenReturn(w, id) ==
    IF w.heap[id].t = "arrit" \/ w.heap[id].state = "completed" THEN w
    ELSE IF /\ w.heap[id].state = "yield"
            /\ w.heap[id].op \in {"map", "filter", "concat", "enumerate"}
    THEN GenReturn(Complete(w, id), w.heap[id].it)
    ELSE Complete(w, id)

\* a map that swallows the failure of fn and yields undefined in its place
MapCalledSwallow(id, c) ==
    IF c.thrown THEN Yielded(c.w, id, Undef)
    ELSE Yielded(c.w, id, c.value)

\* map: function* () { for (const x of a) { yield fn(x); } }
MapCalled(id, c) ==
    IF c.thrown THEN Thrown(GenReturn(c.w, c.w.heap[id].it), id, c.value)
    ELSE Yielded(c.w, id, c.value)

MapItem(id, r) ==
    IF r.thrown THEN Thrown(r.w, id, r.value)
    ELSE IF r.done THEN Returned(r.w, id, Undef)
    ELSE MapCalled(id, Call(r.w, r.w.heap[id].f, r.value))

MapLoop(w, id) == MapItem(id, IterNext(w, w.heap[id].it))

MapNext(w, id) == MapLoop(ForOfStart(w, id), id)

\* filter: function* () { for (const x of a) { if (predicate(x)) { yield x; } } }
FilterCalled(id, x, c) ==
    IF c.thrown THEN Thrown(GenReturn(c.w, c.w.heap[id].it), id, c.value)
    ELSE IF ToBoolean(c.value) THEN Yielded(c.w, id, x)
    ELSE FilterLoop(c.w, id)

FilterItem(id, r) ==
    IF r.thrown THEN Thrown(r.w, id, r.value)
    ELSE IF r.done THEN Returned(r.w, id, Undef)
    ELSE FilterCalled(id, r.value, Call(r.w, r.w.heap[id].f, r.value))

FilterLoop(w, id) == FilterItem(id, IterNext(w, w.heap[id].it))

FilterNext(w, id) == FilterLoop(ForOfStart(w, id), id)

\* concat: function* () { for (const x of a) { yield x; }
\*                        for (const x of other) { yield x; } }
ConcatItem(id, r) ==
    IF r.thrown THEN Thrown(r.w, id, r.value)
    ELSE IF r.done
    THEN IF r.w.heap[id].phase = 1
         THEN ConcatLoop(LoopOver(GetIterator(r.w, r.w.heap[id].other), id, 2), id)
         ELSE Returned(r.w, id, Undef)
    ELSE Yielded(r.w, id, r.value)

ConcatLoop(w, id) == ConcatItem(id, IterNext(w, w.heap[id].it))

ConcatNext(w, id) == ConcatLoop(ForOfStart(w, id), id)

\* enumerate: function* () { let i = 0;
\*                           for (const x of a) { yield [i, x]; i += 1; } }
EnumerateItem(id, r) ==
    IF r.thrown THEN Thrown(r.w, id, r.value)
    ELSE IF r.done THEN Returned(r.w, id, Undef)
    ELSE Yielded(r.w, id, Arr(<<Num(r.w.heap[id].i), r.value>>))

\* i += 1 runs when the generator is resumed after its yield
EnumerateResume(w, id) ==
    IF w.heap[id].state = "yield" THEN [w EXCEPT !.heap[id].i = @ + 1] ELSE w

EnumerateLoop(w, id) == EnumerateItem(id, IterNext(w, w.heap[id].it))

EnumerateNext(w, id) == EnumerateLoop(ForOfStart(EnumerateResume(w, id), id), id)

\* zip: function* () { const ai = a[Symbol.iterator]();
\*                     const bi = other[Symbol.iterator]();
\*                     while (true) { const nexta = ai.next();
\*                                    const nextb = bi.next();
\*                                    if (nexta.done || nextb.done) { return [...]; }
\*                                    else { yield [nexta.value, nextb.value]; } } }
ZipSetB(sb, id) == [sb.w EXCEPT !.heap[id].it2 = sb.id]

ZipSetA(sa, id) ==
    ZipSetB(GetIterator([sa.w EXCEPT !.heap[id].it = sa.id],
                        sa.w.heap[id].other), id)

ZipStart(w, id) ==
    IF w.heap[id].state = "start"
    THEN ZipSetA(GetIterator(w, w.heap[id].src), id)
    ELSE w

\* a zip that stops only when both sources are done (&& for ||)
ZipRoundBoth(id, nexta, nextb) ==
    IF nextb.thrown THEN Thrown(nextb.w, id, nextb.value)
    ELSE IF nexta.done /\ nextb.done
    THEN Returned(nextb.w, id, Arr(<<nexta.value, nextb.value>>))
    ELSE Yielded(nextb.w, id, Arr(<<nexta.value, nextb.value>>))

ZipRound(id, nexta, nextb) ==
    IF nextb.thrown THEN Thrown(nextb.w, id, nextb.value)
    ELSE IF nexta.done \/ nextb.done
    THEN Returned(nextb.w, id, Arr(<<nexta.value, nextb.value>>))
    ELSE Yielded(nextb.w, id, Arr(<<nexta.value, nextb.value>>))

\* a zip that returns as soon as its first source is done, without
\* calling bi.next() in that round
ZipItemAShort(id, nexta) ==
    IF nexta.thrown THEN Thrown(nexta.w, id, nexta.value)
    ELSE IF nexta.done THEN Returned(nexta.w, id, Arr(<<nexta.value, Undef>>))
    ELSE ZipRound(id, nexta, IterNext(nexta.w, nexta.w.heap[id].it2))

ZipItemA(id, nexta) ==
    IF nexta.thrown THEN Thrown(nexta.w, id, nexta.value)
    ELSE ZipRound(id, nexta, IterNext(nexta.w, nexta.w.heap[id].it2))

ZipLoop(w, id) == ZipItemA(id, IterNext(w, w.heap[id].it))

ZipNext(w, id) == ZipLoop(ZipStart(w, id), id)

\* flat: function* () { const stack = [a[Symbol.iterator]()];
\*                      while (stack.length > 0) {
\*                          const next = stack[stack.length-1].next();
\*                          if (next.done) { stack.pop(); }
\*                          else if (isIterable(next.value)) { stack.push(...); }
\*                          else { yield next.value; } } }
Top(w, id) == w.heap[id].stack[Len(w.heap[id].stack)]

Pushed(s, id) == [s.w EXCEPT !.heap[id].stack = Append(@, s.id)]

Popped(w, id) == [w EXCEPT !.heap[id].stack = SubSeq(@, 1, Len(@) - 1)]

FlatStart(w, id) ==
    IF w.heap[id].state = "start"
    THEN [Pushed(GetIterator(w, w.heap[id].src), id)
             EXCEPT !.heap[id].state = "running"]
    ELSE w

\* a flat that descends one level only
FlatItemShallow(id, next) ==
    IF next.thrown THEN Out(Complete(next.w, id), "throw", next.value)
    ELSE IF next.done THEN Out(Popped(next.w, id), "loop", Undef)
    ELSE IF isIterable(next.value) /\ Len(next.w.heap[id].stack) < 2
    THEN Out(Pushed(GetIterator(next.w, next.value), id), "loop", Undef)
    ELSE Out(Suspend(next.w, id), "yield", next.value)

FlatItem(id, next) ==
    IF next.thrown THEN Out(Complete(next.w, id), "throw", next.value)
    ELSE IF next.done THEN Out(Popped(next.w, id), "loop", Undef)
    ELSE IF isIterable(next.value)
    THEN Out(Pushed(GetIterator(next.w, next.value), id), "loop", Undef)
    ELSE Out(Suspend(next.w, id), "yield", next.value)

\* one iteration of the while loop
FlatStep(w, id) == FlatItem(id, IterNext(w, Top(w, id)))

FlatAfter(id, s) ==
    CASE s.kind = "loop" -> FlatLoop(s.w, id)
      [] s.kind = "yield" -> R(s.w, FALSE, s.value, FALSE)
      [] s.kind = "throw" -> R(s.w, TRUE, s.value, TRUE)

\* the loop, up to the next yield or to the end
FlatLoop(w, id) ==
    IF w.heap[id].stack = <<>> THEN Returned(w, id, Undef)
    ELSE FlatAfter(id, FlatStep(w, id))

FlatNext(w, id) == FlatLoop(FlatStart(w, id), id)

\* next() of a generator object: a completed generator answers done
GenNext(w, id) ==
    IF w.heap[id].state = "completed" THEN R(w, TRUE, Undef, FALSE)
    ELSE CASE w.heap[id].op = "src" -> SrcNext(w, id)
           [] w.heap[id].op = "map" -> MapNext(w, id)
           [] w.heap[id].op = "filter" -> FilterNext(w, id)
           [] w.heap[id].op = "concat" -> ConcatNext(w, id)
           [] w.heap[id].op = "enumerate" -> EnumerateNext(w, id)
           [] w.heap[id].op = "zip" -> ZipNext(w, id)
           [] w.heap[id].op = "flat" -> FlatNext(w, id)

\* one next-element request on the cursor id
IterNext(w, id) ==
    IF w.heap[id].t = "arrit" THEN ArrNext(Requested(w, id), id)
    ELSE GenNext(Requested(w, id), id)

(***************************************************************************)
(* FluentIterable: construction, cursor, transformations.                  *)
(***************************************************************************)
\* the wrapper object whose #input is v
Wrapped(w, kind, v) ==
    [w |-> Alloc(w, Obj(kind, "", v, Undef, "")).w,
     id |-> Len(w.heap) + 1, thrown |-> FALSE]

\* input(): calling a generator function creates a generator object and
\* runs none of its body
Invoke(w, fn) ==
    Alloc(w, Obj(IF fn.k = "agenfn" THEN "agen" ELSE "gen",
                 fn.op, fn.src, fn.other, fn.f))

\* this.#input = input(), for the generator object g.id just created
WrapInvoked(g, wkind, gkind) == Wrapped(g.w, wkind, Ref(gkind, g.id))

\* a constructor that looks at the first element of an iterable it is given
Probed(s) == IterNext(s.w, s.id).w

ConstructProbing(w, input) ==
    IF isIterable(input)
    THEN Wrapped(Probed(GetIterator(w, input)), "fluent", input)
    ELSE IF IsFunction(input)
    THEN WrapInvoked(Invoke(w, input), "fluent",
                     IF input.k = "agenfn" THEN "agen" ELSE "gen")
    ELSE [w |-> w, id |-> 0, thrown |-> TRUE]

\* new FluentIterable(input); thrown when the TypeError is raised
Construct(w, input) ==
    IF isIterable(input) THEN Wrapped(w, "fluent", input)
    ELSE IF IsFunction(input)
    THEN WrapInvoked(Invoke(w, input), "fluent",
                     IF input.k = "agenfn" THEN "agen" ELSE "gen")
    ELSE [w |-> w, id |-> 0, thrown |-> TRUE]

\* this.#input
Input(w, fid) == w.heap[fid].src

\* wrapper[Symbol.iterator]()
Iterator(w, fid) == GetIterator(w, Input(w, fid))

Map(w, fid, f) == Construct(w, GenFn("map", Input(w, fid), Undef, f))

Filter(w, fid, p) == Construct(w, GenFn("filter", Input(w, fid), Undef, p))

Where(w, fid, p) == Filter(w, fid, p)

ForEach(w, fid, f) == Map(w, fid, f)

Concat(w, fid, other) == Construct(w, GenFn("concat", Input(w, fid), other, ""))

Enumerate(w, fid) == Construct(w, GenFn("enumerate", Input(w, fid), Undef, ""))

Zip(w, fid, other) == Construct(w, GenFn("zip", Input(w, fid), other, ""))

Flat(w, fid) == Construct(w, GenFn("flat", Input(w, fid), Undef, ""))

(***************************************************************************)
(* FluentIterable: terminal consumers.                                     *)
(***************************************************************************)
RECURSIVE Drain(_, _, _)
RECURSIVE AllLoop(_, _, _)
RECURSIVE AnyLoop(_, _, _)
RECURSIVE ReduceLoop(_, _, _, _)

\* toArray: Array.from(this.#input)
DrainItem(it, arr, r) ==
    IF r.thrown THEN R(r.w, TRUE, r.value, TRUE)
    ELSE IF r.done THEN R(r.w, TRUE, Arr(arr), FALSE)
    ELSE Drain(r.w, it, Append(arr, r.value))

Drain(w, it, arr) == DrainItem(it, arr, IterNext(w, it))

DrainFrom(s) == Drain(s.w, s.id, <<>>)

ToArray(w, fid) == DrainFrom(Iterator(w, fid))

\* an all that goes through the rest of the source before answering false
AllCalledDrain(it, p, c) ==
    IF c.thrown THEN R(GenReturn(c.w, it), TRUE, c.value, TRUE)
    ELSE IF ~ToBoolean(c.value)
    THEN R(Drain(c.w, it, <<>>).w, TRUE, Bool(FALSE), FALSE)
    ELSE AllLoop(c.w, it, p)

\* all: for (const x of this.#input) { if (!predicate(x)) { return false; } }
\*      return true;
AllCalled(it, p, c) ==
    IF c.thrown THEN R(GenReturn(c.w, it), TRUE, c.value, TRUE)
    ELSE IF ~ToBoolean(c.value) THEN R(GenReturn(c.w, it), TRUE, Bool(FALSE), FALSE)
    ELSE AllLoop(c.w, it, p)

AllItem(it, p, r) ==
    IF r.thrown THEN R(r.w, TRUE, r.value, TRUE)
    ELSE IF r.done THEN R(r.w, TRUE, Bool(TRUE), FALSE)
    ELSE AllCalled(it, p, Call(r.w, p, r.value))

AllLoop(w, it, p) == AllItem(it, p, IterNext(w, it))

AllFrom(s, p) == AllLoop(s.w, s.id, p)

All(w, fid, p) == AllFrom(Iterator(w, fid), p)

Every(w, fid, p) == All(w, fid, p)

\* any: for (const x of this.#input) { if (predicate(x)) { return true; } }
\*      return false;
AnyCalled(it, p, c) ==
    IF c.thrown THEN R(GenReturn(c.w, it), TRUE, c.value, TRUE)
    ELSE IF ToBoolean(c.value) THEN R(GenReturn(c.w, it), TRUE, Bool(TRUE), FALSE)
    ELSE AnyLoop(c.w, it, p)

AnyItem(it, p, r) ==
    IF r.thrown THEN R(r.w, TRUE, r.value, TRUE)
    ELSE IF r.done THEN R(r.w, TRUE, Bool(FALSE), FALSE)
    ELSE AnyCalled(it, p, Call(r.w, p, r.value))

AnyLoop(w, it, p) == AnyItem(it, p, IterNext(w, it))

AnyFrom(s, p) == AnyLoop(s.w, s.id, p)

Any(w, fid, p) == AnyFrom(Iterator(w, fid), p)

Some(w, fid, p) == Any(w, fid, p)

\* reduce: let current = initial;
\*         for (const x of this.#input) { current = reducer(current, x); }
\*         return current;
ReduceCalled(it, reducer, c) ==
    IF c.thrown THEN R(GenReturn(c.w, it), TRUE, c.value, TRUE)
    ELSE ReduceLoop(c.w, it, reducer, c.value)

ReduceItem(it, reducer, current, r) ==
    IF r.thrown THEN R(r.w, TRUE, r.value, TRUE)
    ELSE IF r.done THEN R(r.w, TRUE, current, FALSE)
    ELSE ReduceCalled(it, reducer, Call2(r.w, reducer, current, r.value))

ReduceLoop(w, it, reducer, current) ==
    ReduceItem(it, reducer, current, IterNext(w, it))

ReduceFrom(s, reducer, initial) == ReduceLoop(s.w, s.id, reducer, initial)

Reduce(w, fid, reducer, initial) == ReduceFrom(Iterator(w, fid), reducer, initial)

(***************************************************************************)
(* The asynchronous side: FluentAsyncIterable.  AIterNext(w, id) is the    *)
(* settled outcome of `await cursor.next()`: the value the promise         *)
(* resolves to, or thrown when it rejects.  A generator body is cut at     *)
(* its awaits of next(): AResume runs from the resumption to the loop's    *)
(* head, APending names the cursors whose next() is called before the      *)
(* await, and AxxxBody runs on from the settled outcomes.                  *)
(***************************************************************************)
RECURSIVE AGetIterator(_, _)
\* v[Symbol.asyncIterator](): an async generator object gives itself, a
\* FluentAsyncIterable gives its input's async iterator
AGetIterator(w, v) ==
    CASE v.k = "agen" -> [w |-> w, id |-> v.n]
      [] v.k = "afluent" -> AGetIterator(w, w.heap[v.n].src)

\* the cursor a for await loop obtains: the async iterator, or, for a value
\* that has only Symbol.iterator, its synchronous iterator
ForAwaitIterator(w, v) ==
    IF HasSymbolAsyncIterator(v) THEN AGetIterator(w, v) ELSE GetIterator(w, v)

RECURSIVE AIterNext(_, _)
RECURSIVE AGenReturn(_, _)
RECURSIVE ARun(_, _)

\* return() of a cursor a for await loop is leaving early
AGenReturn(w, id) ==
    IF w.heap[id].t # "agen" THEN GenReturn(w, id)
    ELSE IF w.heap[id].state = "completed" THEN w
    ELSE IF /\ w.heap[id].state = "yield"
            /\ w.heap[id].op \in {"map", "filter", "concat", "enumerate"}
    THEN AGenReturn(Complete(w, id), w.heap[id].it)
    ELSE Complete(w, id)

\* zip: const ai = a[Symbol.asyncIterator]();
\*      const bi = other[Symbol.asyncIterator]();
AZipSetA(sa, id) ==
    ZipSetB(AGetIterator([sa.w EXCEPT !.heap[id].it = sa.id],
                         sa.w.heap[id].other), id)

\* the first resumption obtains the cursors: zip's ai and bi, flat's
\* stack = [a[Symbol.asyncIterator]()], the head of for await (... of a)
AStartCursors(w, id) ==
    CASE w.heap[id].op = "zip" -> AZipSetA(AGetIterator(w, w.heap[id].src), id)
      [] w.heap[id].op = "flat" -> Pushed(AGetIterator(w, w.heap[id].src), id)
      [] OTHER -> LoopOver(ForAwaitIterator(w, w.heap[id].src), id, 1)

Running(w, id) == [w EXCEPT !.heap[id].state = "running"]

\* what runs when next() resumes the generator, up to the loop's head;
\* enumerate resumed after its yield does i += 1
AResume(w, id) ==
    Running(IF w.heap[id].state = "start" THEN AStartCursors(w, id)
            ELSE IF w.heap[id].state = "yield" /\ w.heap[id].op = "enumerate"
            THEN [w EXCEPT !.heap[id].i = @ + 1]
            ELSE w, id)

\* a zip whose two requests are made in the other order:
\* const [nexta, nextb] = await Promise.all([bi.next(), ai.next()])
APendingSwapped(w, id) ==
    CASE w.heap[id].op = "zip" -> <<w.heap[id].it2, w.heap[id].it>>
      [] w.heap[id].op = "flat" -> <<Top(w, id)>>
      [] OTHER -> <<w.heap[id].it>>

\* the cursors whose next() the body calls before it awaits: zip calls
\* both inside Promise.all([ai.next(), bi.next()]); flat calls the top of
\* its stack; a for await loop calls its one cursor
APending(w, id) ==
    CASE w.heap[id].op = "zip" -> <<w.heap[id].it, w.heap[id].it2>>
      [] w.heap[id].op = "flat" -> <<Top(w, id)>>
      [] OTHER -> <<w.heap[id].it>>

\* map: for await (const x of a) { yield await fn(x); }
AMapCalled(id, c) ==
    IF c.thrown
    THEN Out(Complete(AGenReturn(c.w, c.w.heap[id].it), id), "throw", c.value)
    ELSE Out(Suspend(c.w, id), "yield", c.value)

AMapBody(w, id, rs) ==
    IF rs[1].thrown THEN Out(Complete(w, id), "throw", rs[1].value)
    ELSE IF rs[1].done THEN Out(Complete(w, id), "done", Undef)
    ELSE AMapCalled(id, Call(w, w.heap[id].f, rs[1].value))

\* filter: for await (const x of a) { if (await predicate(x)) { yield x; } }
AFilterCalled(id, x, c) ==
    IF c.thrown
    THEN Out(Complete(AGenReturn(c.w, c.w.heap[id].it), id), "throw", c.value)
    ELSE IF ToBoolean(c.value) THEN Out(Suspend(c.w, id), "yield", x)
    ELSE Out(c.w, "loop", Undef)

AFilterBody(w, id, rs) ==
    IF rs[1].thrown THEN Out(Complete(w, id), "throw", rs[1].value)
    ELSE IF rs[1].done THEN Out(Complete(w, id), "done", Undef)
    ELSE AFilterCalled(id, rs[1].value, Call(w, w.heap[id].f, rs[1].value))

\* concat: for await (const x of a) { yield x; }
\*         for await (const x of other) { yield x; }
AConcatBody(w, id, rs) ==
    IF rs[1].thrown THEN Out(Complete(w, id), "throw", rs[1].value)
    ELSE IF rs[1].done
    THEN IF w.heap[id].phase = 1
         THEN Out(LoopOver(ForAwaitIterator(w, w.heap[id].other), id, 2),
                  "loop", Undef)
         ELSE Out(Complete(w, id), "done", Undef)
    ELSE Out(Suspend(w, id), "yield", rs[1].value)

\* enumerate: let i = 0; for await (const x of a) { yield [i, x]; i += 1; }
AEnumerateBody(w, id, rs) ==
    IF rs[1].thrown THEN Out(Complete(w, id), "throw", rs[1].value)
    ELSE IF rs[1].done THEN Out(Complete(w, id), "done", Undef)
    ELSE Out(Suspend(w, id), "yield", Arr(<<Num(w.heap[id].i), rs[1].value>>))

\* an asynchronous zip that stops only when both sources are done
AZipBodyBoth(w, id, rs) ==
    IF rs[1].thrown THEN Out(Complete(w, id), "throw", rs[1].value)
    ELSE IF rs[2].thrown THEN Out(Complete(w, id), "throw", rs[2].value)
    ELSE IF rs[1].done /\ rs[2].done
    THEN Out(Complete(w, id), "done", Arr(<<rs[1].value, rs[2].value>>))
    ELSE Out(Suspend(w, id), "yield", Arr(<<rs[1].value, rs[2].value>>))

\* zip: const [nexta, nextb] = await Promise.all([ai.next(), bi.next()]);
\*      if (nexta.done || nextb.done) { return [nexta.value, nextb.value]; }
\*      else { yield [nexta.value, nextb.value]; }
\* (a rejection of either request is Promise.all's rejection)
AZipBody(w, id, rs) ==
    IF rs[1].thrown THEN Out(Complete(w, id), "throw", rs[1].value)
    ELSE IF rs[2].thrown THEN Out(Complete(w, id), "throw", rs[2].value)
    ELSE IF rs[1].done \/ rs[2].done
    THEN Out(Complete(w, id), "done", Arr(<<rs[1].value, rs[2].value>>))
    ELSE Out(Suspend(w, id), "yield", Arr(<<rs[1].value, rs[2].value>>))

\* flat: const next = await stack[stack.length-1].next();
\*       if (next.done) { stack.pop(); }
\*       else if (isAsyncIterable(next.value)) { stack.push(...); }
\*       else if (isIterable(next.value)) { stack.push(...); }
\*       else { yield next.value; }
AFlatBody(w, id, rs) ==
    IF rs[1].thrown THEN Out(Complete(w, id), "throw", rs[1].value)
    ELSE IF rs[1].done THEN Out(Popped(w, id), "loop", Undef)
    ELSE IF isAsyncIterable(rs[1].value)
    THEN Out(Pushed(AGetIterator(w, rs[1].value), id), "loop", Undef)
    ELSE IF isIterable(rs[1].value)
    THEN Out(Pushed(GetIterator(w, rs[1].value), id), "loop", Undef)
    ELSE Out(Suspend(w, id), "yield", rs[1].value)

\* the body after its awaited requests have settled with outcomes rs
ABody(w, id, rs) ==
    CASE w.heap[id].op = "map" -> AMapBody(w, id, rs)
      [] w.heap[id].op = "filter" -> AFilterBody(w, id, rs)
      [] w.heap[id].op = "concat" -> AConcatBody(w, id, rs)
      [] w.heap[id].op = "enumerate" -> AEnumerateBody(w, id, rs)
      [] w.heap[id].op = "zip" -> AZipBody(w, id, rs)
      [] w.heap[id].op = "flat" -> AFlatBody(w, id, rs)

\* flat's while (stack.length > 0) is left when the stack is empty
ALoopExit(w, id) == w.heap[id].op = "flat" /\ w.heap[id].stack = <<>>

\* the settled outcome of a request, without the world it left
Settled(r) == [done |-> r.done, value |-> r.value, thrown |-> r.thrown]

ASettle2(id, r1, r2) == ABody(r2.w, id, <<Settled(r1), Settled(r2)>>)

ASettle1(id, ids, r1) ==
    IF Len(ids) = 2 THEN ASettle2(id, r1, AIterNext(r1.w, ids[2]))
    ELSE ABody(r1.w, id, <<Settled(r1)>>)

\* one pass of the body's loop: the requests are made, they settle (here
\* in the order they were made), and the body goes on
AStep(w, id) == ASettle1(id, APending(w, id), AIterNext(w, APending(w, id)[1]))

AAfter(id, s) ==
    CASE s.kind = "loop" -> ARun(s.w, id)
      [] s.kind = "yield" -> R(s.w, FALSE, s.value, FALSE)
      [] s.kind = "done" -> R(s.w, TRUE, s.value, FALSE)
      [] s.kind = "throw" -> R(s.w, TRUE, s.value, TRUE)

\* the body's loop, up to its next yield, return or throw
ARun(w, id) ==
    IF ALoopExit(w, id) THEN Returned(w, id, Undef)
    ELSE AAfter(id, AStep(w, id))

\* next() of an async generator object, settled
AGenNext(w, id) ==
    IF w.heap[id].state = "completed" THEN R(w, TRUE, Undef, FALSE)
    ELSE IF w.heap[id].op = "src" THEN SrcNext(w, id)
    ELSE ARun(AResume(w, id), id)

\* await cursor.next(): the cursor may be a synchronous one (inside flat's
\* stack, or under a for await over a synchronous iterable)
AIterNext(w, id) ==
    IF w.heap[id].t = "agen" THEN AGenNext(Requested(w, id), id)
    ELSE IterNext(w, id)

\* new FluentAsyncIterable(input)
AConstruct(w, input) ==
    IF isAsyncIterable(input) THEN Wrapped(w, "afluent", input)
    ELSE IF IsFunction(input)
    THEN WrapInvoked(Invoke(w, input), "afluent",
                     IF input.k = "agenfn" THEN "agen" ELSE "gen")
    ELSE [w |-> w, id |-> 0, thrown |-> TRUE]

\* wrapper[Symbol.asyncIterator]()
AIterator(w, fid) == AGetIterator(w, Input(w, fid))

AMap(w, fid, f) == AConstruct(w, AGenFn("map", Input(w, fid), Undef, f))

AFilter(w, fid, p) == AConstruct(w, AGenFn("filter", Input(w, fid), Undef, p))

AWhere(w, fid, p) == AFilter(w, fid, p)

AForEach(w, fid, f) == AMap(w, fid, f)

AConcat(w, fid, other) == AConstruct(w, AGenFn("concat", Input(w, fid), other, ""))

AEnumerate(w, fid) == AConstruct(w, AGenFn("enumerate", Input(w, fid), Undef, ""))

AZip(w, fid, other) == AConstruct(w, AGenFn("zip", Input(w, fid), other, ""))

AFlat(w, fid) == AConstruct(w, AGenFn("flat", Input(w, fid), Undef, ""))

RECURSIVE ADrain(_, _, _)
RECURSIVE AAllLoop(_, _, _)
RECURSIVE AAnyLoop(_, _, _)
RECURSIVE AReduceLoop(_, _, _, _)

\* toArray: for await (const x of this.#input) { arr.push(x); } return arr;
ADrainItem(it, arr, r) ==
    IF r.thrown THEN R(r.w, TRUE, r.value, TRUE)
    ELSE IF r.done THEN R(r.w, TRUE, Arr(arr), FALSE)
    ELSE ADrain(r.w, it, Append(arr, r.value))

ADrain(w, it, arr) == ADrainItem(it, arr, AIterNext(w, it))

ADrainFrom(s) == ADrain(s.w, s.id, <<>>)

AToArray(w, fid) == ADrainFrom(AIterator(w, fid))

\* all: for await (const x of this.#input) {
\*          if (!(await predicate(x))) { return false; } }
\*      return true;
AAllCalled(it, p, c) ==
    IF c.thrown THEN R(AGenReturn(c.w, it), TRUE, c.value, TRUE)
    ELSE IF ~ToBoolean(c.value) THEN R(AGenReturn(c.w, it), TRUE, Bool(FALSE), FALSE)
    ELSE AAllLoop(c.w, it, p)

AAllItem(it, p, r) ==
    IF r.thrown THEN R(r.w, TRUE, r.value, TRUE)
    ELSE IF r.done THEN R(r.w, TRUE, Bool(TRUE), FALSE)
    ELSE AAllCalled(it, p, Call(r.w, p, r.value))

AAllLoop(w, it, p) == AAllItem(it, p, AIterNext(w, it))

AAllFrom(s, p) == AAllLoop(s.w, s.id, p)

AAll(w, fid, p) == AAllFrom(AIterator(w, fid), p)

AEvery(w, fid, p) == AAll(w, fid, p)

\* any: for await (const x of this.#input) {
\*          if (await predicate(x)) { return true; } }
\*      return false;
AAnyCalled(it, p, c) ==
    IF c.thrown THEN R(AGenReturn(c.w, it), TRUE, c.value, TRUE)
    ELSE IF ToBoolean(c.value) THEN R(AGenReturn(c.w, it), TRUE, Bool(TRUE), FALSE)
    ELSE AAnyLoop(c.w, it, p)

AAnyItem(it, p, r) ==
    IF r.thrown THEN R(r.w, TRUE, r.value, TRUE)
    ELSE IF r.done THEN R(r.w, TRUE, Bool(FALSE), FALSE)
    ELSE AAnyCalled(it, p, Call(r.w, p, r.value))

AAnyLoop(w, it, p) == AAnyItem(it, p, AIterNext(w, it))

AAnyFrom(s, p) == AAnyLoop(s.w, s.id, p)

AAny(w, fid, p) == AAnyFrom(AIterator(w, fid), p)

ASome(w, fid, p) == AAny(w, fid, p)

\* reduce: let current = initial;
\*         for await (const x of this.#input) {
\*             current = await reducer(current, x); }
\*         return current;
AReduceCalled(it, reducer, c) ==
    IF c.thrown THEN R(AGenReturn(c.w, it), TRUE, c.value, TRUE)
    ELSE AReduceLoop(c.w, it, reducer, c.value)

AReduceItem(it, reducer, current, r) ==
    IF r.thrown THEN R(r.w, TRUE, r.value, TRUE)
    ELSE IF r.done THEN R(r.w, TRUE, current, FALSE)
    ELSE AReduceCalled(it, reducer, Call2(r.w, reducer, current, r.value))

AReduceLoop(w, it, reducer, current) ==
    AReduceItem(it, reducer, current, AIterNext(w, it))

AReduceFrom(s, reducer, initial) == AReduceLoop(s.w, s.id, reducer, initial)

AReduce(w, fid, reducer, initial) ==
    AReduceFrom(AIterator(w, fid), reducer, initial)

(***************************************************************************)
(* The state machine.  heap and calls are the world; pc is the client's    *)
(* position, args the inputs it was given, refs the objects it holds and   *)
(* result what came back to it.                                            *)
(***************************************************************************)
W == World(heap, calls)

SetWorld(w) == heap' = w.heap /\ calls' = w.calls

\* the client keeps the object a constructor or a method returned
Keep(c, field) == SetWorld(c.w) /\ refs' = [refs EXCEPT ![field] = c.id]

Elems == {1, 2}

IsPrefix(p, q) == Len(p) <= Len(q) /\ \A i \in 1..Min(Len(p), Len(q)) : p[i] = q[i]

Seqs == SeqsUpTo(Elems, MaxLen)

\* the source a client wraps: an array, or function* () { yield ... },
\* or async function* () { yield ... }
Source(kind, vs) ==
    CASE kind = "arr" -> Arr(vs)
      [] kind = "genfn" -> GenFn("src", Arr(vs), Undef, "")
      [] kind = "agenfn" -> AGenFn("src", Arr(vs), Undef, "")

\* the generator object a wrapper created by a transformation holds
GenOf(h, fid) == h[h[fid].src.n]

(***************************************************************************)
(* SpecZip: wrap S, zip it with other (an array, a generator object or a   *)
(* wrapper over T), and call toArray().                                    *)
(***************************************************************************)
ZipInit ==
    /\ heap = <<>>
    /\ calls = <<>>
    /\ pc = "new"
    /\ args \in [mode : {"sync", "async"}, S : Seqs, T : Seqs,
                 src : {"arr", "genfn"}, other : {"plain", "fluent"}]
    /\ refs = [a |-> 0, b |-> 0, other |-> Undef, z |-> 0]
    /\ result = Undef

\* new FluentIterable(S) / new FluentAsyncIterable(async function* ...)
ZipNew ==
    /\ pc = "new"
    /\ Keep(IF args.mode = "sync"
            THEN Construct(W, Source(args.src, Nums(args.S)))
            ELSE AConstruct(W, Source("agenfn", Nums(args.S))), "a")
    /\ pc' = "other"
    /\ UNCHANGED <<args, result>>

\* the second sequence is wrapped too
ZipOther ==
    /\ pc = "other"
    /\ Keep(IF args.mode = "sync"
            THEN Construct(W, Source(args.src, Nums(args.T)))
            ELSE AConstruct(W, Source("agenfn", Nums(args.T))), "b")
    /\ pc' = "zip"
    /\ UNCHANGED <<args, result>>

\* what zip is given: the second wrapper, or the iterable it holds
ZipOperand ==
    IF args.other = "fluent"
    THEN Ref(IF args.mode = "sync" THEN "fluent" ELSE "afluent", refs.b)
    ELSE Input(W, refs.b)

ZipBuild ==
    /\ pc = "zip"
    /\ Keep(IF args.mode = "sync" THEN Zip(W, refs.a, ZipOperand)
            ELSE AZip(W, refs.a, ZipOperand), "z")
    /\ pc' = "run"
    /\ UNCHANGED <<args, result>>

ZipReturn(r) == SetWorld(r.w) /\ result' = r.value

ZipToArray ==
    /\ pc = "run"
    /\ ZipReturn(IF args.mode = "sync" THEN ToArray(W, refs.z)
                 ELSE AToArray(W, refs.z))
    /\ pc' = "done"
    /\ UNCHANGED <<args, refs>>

ZipNextAction == ZipNew \/ ZipOther \/ ZipBuild \/ ZipToArray

SpecZip == ZipInit /\ [][ZipNextAction]_vars

Pairs(s, t) ==
    [i \in 1..Min(Len(s), Len(t)) |-> Arr(<<Num(s[i]), Num(t[i])>>)]

\* C3: zip(other).toArray() has length min(len(S), len(other)) and its i-th
\* pair is (S[i], other[i]); nothing of the unpaired tail is emitted.
C3_ZipPairs ==
    pc = "done" => result = Arr(Pairs(args.S, args.T))

C3_Witness ==
    /\ pc = "done"
    /\ Len(args.S) > Len(args.T)
    /\ Len(args.T) >= 1
    /\ Len(result.items) = Len(args.T)

\* the two source cursors of the zip generator of wrapper z
ZipCursorA == heap[GenOf(heap, refs.z).it]

ZipCursorB == heap[GenOf(heap, refs.z).it2]

\* C10: when the zip traversal has completed, each source cursor has had
\* exactly min(n, m) + 1 next-element requests; a strictly longer source
\* has produced min(n, m) + 1 elements and has not signalled completion.
C10_ZipRequests ==
    pc = "done" =>
        /\ ZipCursorA.reqs = Min(Len(args.S), Len(args.T)) + 1
        /\ ZipCursorB.reqs = Min(Len(args.S), Len(args.T)) + 1
        /\ Len(args.S) > Len(args.T) =>
              ZipCursorA.i = Len(args.T) + 1 /\ ZipCursorA.state # "completed"
        /\ Len(args.T) > Len(args.S) =>
              ZipCursorB.i = Len(args.S) + 1 /\ ZipCursorB.state # "completed"
        /\ Len(args.S) <= Len(args.T) =>
              ZipCursorA.i = Len(args.S) /\ ZipCursorA.state = "completed"
        /\ Len(args.T) <= Len(args.S) =>
              ZipCursorB.i = Len(args.T) /\ ZipCursorB.state = "completed"

C10_Witness ==
    /\ pc = "done"
    /\ Len(args.S) > Len(args.T)
    /\ ZipCursorA.reqs = Len(args.T) + 1
    /\ ZipCursorA.state = "yield"

(***************************************************************************)
(* SpecFlat: wrap a nested input, call flat() and toArray(); the           *)
(* generator's while loop is followed one iteration at a time.             *)
(***************************************************************************)
Atoms == {Num(1), Num(2), Str(<<>>), Str(<<Chr(1), Chr(2)>>)}

RECURSIVE ValuesOfSize(_)
RECURSIVE ForestsOfSize(_)
\* the values with n nodes: an atom or the empty array is one node, an
\* array is one node more than its elements together
ValuesOfSize(n) ==
    IF n = 1 THEN Atoms \cup {Arr(<<>>)}
    ELSE {Arr(f) : f \in ForestsOfSize(n - 1)}

ForestsOfSize(n) ==
    IF n = 0 THEN {<<>>}
    ELSE UNION {{<<v>> \o f : v \in ValuesOfSize(j), f \in ForestsOfSize(n - j)}
                : j \in 1..n}

NestedInputs == UNION {{Arr(f) : f \in ForestsOfSize(n)} : n \in 0..(MaxNodes - 1)}

\* the loop is followed while the stack is at most this deep; no input
\* without strings needs more
StackCap == MaxNodes + 1

RECURSIVE Leaves(_)
RECURSIVE LeavesOfAll(_)
\* the leaves of a nested value, depth-first and left to right
Leaves(v) == IF v.k = "arr" THEN LeavesOfAll(v.items) ELSE <<v>>

LeavesOfAll(f) == IF f = <<>> THEN <<>> ELSE Leaves(Head(f)) \o LeavesOfAll(Tail(f))

\* no leaf is enumerable for the language: no leaf is a non-empty string
PlainLeaves(v) == \A i \in 1..Len(Leaves(v)) :
                      ~(ToBoolean(Leaves(v)[i]) /\ HasSymbolIterator(Leaves(v)[i]))

FlatInit ==
    /\ heap = <<>>
    /\ calls = <<>>
    /\ pc = "new"
    /\ args \in [mode : {"sync", "async"}, input : NestedInputs]
    /\ refs = [a |-> 0, z |-> 0, it |-> 0]
    /\ result = Arr(<<>>)

FlatNew ==
    /\ pc = "new"
    /\ Keep(IF args.mode = "sync" THEN Construct(W, args.input)
            ELSE AConstruct(W, AGenFn("src", args.input, Undef, "")), "a")
    /\ pc' = "flat"
    /\ UNCHANGED <<args, result>>

FlatBuild ==
    /\ pc = "flat"
    /\ Keep(IF args.mode = "sync" THEN Flat(W, refs.a) ELSE AFlat(W, refs.a), "z")
    /\ pc' = "run"
    /\ UNCHANGED <<args, result>>

\* the first next() starts the generator: the stack is created
FlatStarted(s) ==
    [w |-> IF args.mode = "sync" THEN FlatStart(Requested(s.w, s.id), s.id)
           ELSE AResume(Requested(s.w, s.id), s.id),
     id |-> s.id]

\* toArray() obtains the cursor and makes its first request
FlatRun ==
    /\ pc = "run"
    /\ Keep(FlatStarted(IF args.mode = "sync" THEN Iterator(W, refs.z)
                        ELSE AIterator(W, refs.z)), "it")
    /\ pc' = "loop"
    /\ UNCHANGED <<args, result>>

\* a yielded leaf is pushed by toArray(), which requests the next element
FlatTaken(s) ==
    /\ SetWorld(IF s.kind = "yield" THEN Requested(s.w, refs.it) ELSE s.w)
    /\ result' = IF s.kind = "yield" THEN Arr(Append(result.items, s.value))
                 ELSE result

\* one iteration of the while loop
FlatIter ==
    /\ pc = "loop"
    /\ Len(heap[refs.it].stack) \in 1..StackCap
    /\ FlatTaken(IF args.mode = "sync" THEN FlatStep(W, refs.it)
                 ELSE AStep(W, refs.it))
    /\ UNCHANGED <<pc, args, refs>>

\* the stack is empty: the generator returns and toArray() with it
FlatEnd ==
    /\ pc = "loop"
    /\ Len(heap[refs.it].stack) = 0
    /\ SetWorld(Complete(W, refs.it))
    /\ pc' = "done"
    /\ UNCHANGED <<args, refs, result>>

FlatNextAction == FlatNew \/ FlatBuild \/ FlatRun \/ FlatIter \/ FlatEnd

SpecFlat == FlatInit /\ [][FlatNextAction]_vars

\* C1: for a finitely nested input whose leaves are not enumerable, flat()
\* then toArray() is exactly the leaves in depth-first left-to-right order
\* (nothing enumerable emitted, nothing dropped or duplicated), the
\* traversal ends exactly when the cursor stack is empty, and it is never
\* cut short by the stack's depth.
C1_FlatLeaves ==
    PlainLeaves(args.input) =>
        /\ pc = "done" => /\ result = Arr(Leaves(args.input))
                          /\ heap[refs.it].stack = <<>>
                          /\ heap[refs.it].state = "completed"
        /\ pc = "loop" =>
              /\ Len(heap[refs.it].stack) <= MaxNodes
              /\ IsPrefix(result.items, Leaves(args.input))

C1_Witness ==
    /\ pc = "done"
    /\ args.input = Arr(<<Num(1), Arr(<<Arr(<<Num(2)>>)>>)>>)
    /\ result = Arr(<<Num(1), Num(2)>>)

\* C2: flat() never descends into a string: no cursor over a string is
\* ever pushed on the stack.
C2_NoStringDescent ==
    pc \in {"loop", "done"} =>
        \A i \in 1..Len(heap[refs.it].stack) :
            heap[heap[refs.it].stack[i]].src.k # "str"

(***************************************************************************)
(* Pipelines over number sequences: what each transformation is asked to   *)
(* do, and what it should produce.                                         *)
(***************************************************************************)
IsOddNum(v) == v.n % 2 = 1

\* the elements wrapper.op(...).toArray() should hold, for a wrapper over
\* s (over s followed by the array t, for flat)
Expected(op, s, t) ==
    CASE op = "none" -> Nums(s)
      [] op = "map" -> [i \in 1..Len(s) |-> Num(s[i] + 1)]
      [] op = "filter" -> SelectSeq(Nums(s), IsOddNum)
      [] op = "concat" -> Nums(s \o t)
      [] op = "enumerate" -> [i \in 1..Len(s) |-> Arr(<<Num(i - 1), Num(s[i])>>)]
      [] op = "zip" -> Pairs(s, t)
      [] op = "flat" -> Nums(s \o t)

\* the elements the wrapped source holds for op
SourceItems(op, s, t) ==
    IF op = "flat" THEN Nums(s) \o <<Arr(Nums(t))>> ELSE Nums(s)

TwoSeqOps == {"concat", "zip", "flat"}

Transformations == {"map", "filter", "concat", "enumerate", "zip", "flat"}

\* wrapper.op(...) on a FluentIterable
Transform(w, fid, op, other) ==
    CASE op = "map" -> Map(w, fid, "inc")
      [] op = "filter" -> Filter(w, fid, "isOdd")
      [] op = "where" -> Where(w, fid, "gt1")
      [] op = "forEach" -> ForEach(w, fid, "inc")
      [] op = "concat" -> Concat(w, fid, other)
      [] op = "enumerate" -> Enumerate(w, fid)
      [] op = "zip" -> Zip(w, fid, other)
      [] op = "flat" -> Flat(w, fid)

\* wrapper.op(...) on a FluentAsyncIterable
ATransform(w, fid, op, other) ==
    CASE op = "map" -> AMap(w, fid, "inc")
      [] op = "filter" -> AFilter(w, fid, "isOdd")
      [] op = "where" -> AWhere(w, fid, "gt1")
      [] op = "forEach" -> AForEach(w, fid, "inc")
      [] op = "concat" -> AConcat(w, fid, other)
      [] op = "enumerate" -> AEnumerate(w, fid)
      [] op = "zip" -> AZip(w, fid, other)
      [] op = "flat" -> AFlat(w, fid)

\* the cursors over the sources themselves: array iterators and the
\* generator objects of the source generator functions
SourceCursors == {id \in DOMAIN heap : heap[id].t = "arrit" \/ heap[id].op = "src"}

\* a synchronous wrapper is over an array or a supplier; an asynchronous
\* one over a supplier
Origins(mode) == IF mode = "sync" THEN {"arr", "genfn"} ELSE {"agenfn"}

\* new FluentIterable(...) / new FluentAsyncIterable(...) over the items
Wrap(w, mode, origin, items) ==
    IF mode = "sync" THEN Construct(w, Source(origin, items))
    ELSE AConstruct(w, Source(origin, items))

(***************************************************************************)
(* SpecCursor: a wrapper over a restartable source (an array), directly,   *)
(* through a transformation or through a supplier function; two cursors    *)
(* are obtained from it and advanced in any order, or toArray() is called  *)
(* twice.                                                                  *)
(***************************************************************************)
CursorInit ==
    /\ heap = <<>>
    /\ calls = <<>>
    /\ pc = "new"
    /\ args \in {a \in [origin : {"arr", "genfn"},
                        op : {"none"} \cup Transformations,
                        S : Seqs, T : Seqs] :
                    a.op \notin TwoSeqOps => a.T = <<>>}
    /\ refs = [a |-> 0, z |-> 0, cur |-> <<>>]
    /\ result = [out |-> <<>>, done |-> <<>>, arrays |-> <<>>]

\* new FluentIterable(array) or new FluentIterable(function* () {...})
CursorNew ==
    /\ pc = "new"
    /\ Keep(Construct(W, Source(args.origin,
                                SourceItems(args.op, args.S, args.T))), "a")
    /\ pc' = IF args.op = "none" THEN "ready" ELSE "build"
    /\ UNCHANGED <<args, result>>

CursorBuild ==
    /\ pc = "build"
    /\ Keep(Transform(W, refs.a, args.op, Arr(Nums(args.T))), "z")
    /\ pc' = "ready"
    /\ UNCHANGED <<args, result>>

\* the wrapper under test
CursorWrapper == IF args.op = "none" THEN refs.a ELSE refs.z

CursorObtained(s) ==
    /\ SetWorld(s.w)
    /\ refs' = [refs EXCEPT !.cur = Append(@, s.id)]

\* wrapper[Symbol.iterator](), at most twice
CursorIter ==
    /\ pc \in {"ready", "cursors"}
    /\ Len(refs.cur) < 2
    /\ CursorObtained(Iterator(W, CursorWrapper))
    /\ result' = [result EXCEPT !.out = Append(@, <<>>),
                                !.done = Append(@, FALSE)]
    /\ pc' = "cursors"
    /\ UNCHANGED args

CursorPulled(j, r) ==
    /\ SetWorld(r.w)
    /\ result' = IF r.done THEN [result EXCEPT !.done[j] = TRUE]
                 ELSE [result EXCEPT !.out[j] = Append(@, r.value)]

\* next() on the j-th cursor obtained
CursorPull(j) ==
    /\ pc = "cursors"
    /\ j \in 1..Len(refs.cur)
    /\ ~result.done[j]
    /\ CursorPulled(j, IterNext(W, refs.cur[j]))
    /\ UNCHANGED <<pc, args, refs>>

CursorReturned(r) ==
    /\ SetWorld(r.w)
    /\ result' = [result EXCEPT !.arrays = Append(@, r.value)]

\* wrapper.toArray(), at most twice
CursorToArray ==
    /\ pc \in {"ready", "arrays"}
    /\ Len(result.arrays) < 2
    /\ CursorReturned(ToArray(W, CursorWrapper))
    /\ pc' = "arrays"
    /\ UNCHANGED <<args, refs>>

CursorNextAction ==
    \/ CursorNew
    \/ CursorBuild
    \/ CursorIter
    \/ \E j \in 1..2 : CursorPull(j)
    \/ CursorToArray

SpecCursor == CursorInit /\ [][CursorNextAction]_vars

CursorWant == Expected(args.op, args.S, args.T)

\* C4: every cursor obtained from a wrapper whose origin is an array
\* (held directly, behind a transformation or behind a supplier function)
\* produces the complete sequence whatever is done with the other cursor,
\* and every toArray() call returns the complete sequence.
C4_IndependentCursors ==
    /\ \A j \in 1..Len(result.out) :
          /\ IsPrefix(result.out[j], CursorWant)
          /\ result.done[j] => result.out[j] = CursorWant
    /\ \A j \in 1..Len(result.arrays) : result.arrays[j] = Arr(CursorWant)

(***************************************************************************)
(* SpecBuild: a wrapper is constructed, a chain of transformations is      *)
(* called on it, and only then toArray() drives the result.                *)
(***************************************************************************)
BuildOps == {"map", "filter", "where", "forEach", "concat", "enumerate",
             "zip", "flat"}

Chains == SeqsUpTo(BuildOps, MaxChain)

BuildInit ==
    /\ heap = <<>>
    /\ calls = <<>>
    /\ pc = "new"
    /\ args \in {a \in [mode : {"sync", "async"},
                        origin : {"arr", "genfn", "agenfn"},
                        S : Seqs, ops : Chains] :
                    a.origin \in Origins(a.mode)}
    /\ refs = [z |-> 0, b |-> 0, n |-> 0]
    /\ result = Undef

BuildNew ==
    /\ pc = "new"
    /\ Keep(Wrap(W, args.mode, args.origin, Nums(args.S)), "z")
    /\ pc' = "other"
    /\ UNCHANGED <<args, result>>

\* the wrapper concat and zip are given
BuildOther ==
    /\ pc = "other"
    /\ Keep(Wrap(W, args.mode, args.origin, <<Num(1), Num(2)>>), "b")
    /\ pc' = "build"
    /\ UNCHANGED <<args, result>>

BuildApplied(c) ==
    /\ SetWorld(c.w)
    /\ refs' = [refs EXCEPT !.z = c.id, !.n = @ + 1]

\* the next transformation of the chain is called on the latest wrapper
BuildApply ==
    /\ pc = "build"
    /\ refs.n < Len(args.ops)
    /\ BuildApplied(IF args.mode = "sync"
                    THEN Transform(W, refs.z, args.ops[refs.n + 1],
                                   Ref("fluent", refs.b))
                    ELSE ATransform(W, refs.z, args.ops[refs.n + 1],
                                    Ref("afluent", refs.b)))
    /\ UNCHANGED <<pc, args, result>>

\* toArray() on the wrapper the chain ended with
BuildDrive ==
    /\ pc = "build"
    /\ refs.n = Len(args.ops)
    /\ ZipReturn(IF args.mode = "sync" THEN ToArray(W, refs.z)
                 ELSE AToArray(W, refs.z))
    /\ pc' = "done"
    /\ UNCHANGED <<args, refs>>

BuildNextAction == BuildNew \/ BuildOther \/ BuildApply \/ BuildDrive

SpecBuild == BuildInit /\ [][BuildNextAction]_vars

\* an object nothing has been requested of: no next(), no cursor taken
Untouched(o) ==
    /\ o.t # "arrit"
    /\ o.reqs = 0
    /\ o.state = "start"
    /\ o.i = 0
    /\ o.it = 0
    /\ o.it2 = 0
    /\ o.stack = <<>>

Generators == {id \in DOMAIN heap : heap[id].t \in {"gen", "agen"}}

Wrappers == {id \in DOMAIN heap : heap[id].t \in {"fluent", "afluent"}}

\* C5: while the pipeline is being built no cursor exists, no object has
\* received a next-element request and no supplied function has been
\* called; every wrapper made from a supplier holds the one generator
\* object its one invocation returned; requests are made once toArray()
\* drives the result.
C5_BuildIsLazy ==
    /\ pc # "done" =>
          /\ calls = <<>>
          /\ \A id \in DOMAIN heap : Untouched(heap[id])
          /\ Cardinality(Generators) =
                Cardinality({id \in Wrappers : heap[id].src.k \in {"gen", "agen"}})
          /\ \A id \in Wrappers : \A id2 \in Wrappers :
                (id # id2 /\ heap[id].src.k \in {"gen", "agen"}) =>
                    heap[id].src # heap[id2].src
    /\ pc = "done" => \E id \in SourceCursors : heap[id].reqs > 0

C5_Witness ==
    /\ pc = "build"
    /\ args.ops = <<"forEach", "zip">>
    /\ refs.n = 2
    /\ args.S = <<1, 2>>
    /\ heap[refs.z].src.k \in {"gen", "agen"}
    /\ calls = <<>>

(***************************************************************************)
(* SpecErr: the function given to map / filter / reduce / all / any        *)
(* throws on the element 2 while a terminal consumer drives the pipeline;  *)
(* afterwards the stage's cursor is asked once more.                       *)
(***************************************************************************)
ErrCases == {"map", "filter", "reduce", "all", "any"}

NoOutcome == [done |-> FALSE, value |-> Undef, thrown |-> FALSE]

ErrInit ==
    /\ heap = <<>>
    /\ calls = <<>>
    /\ pc = "new"
    /\ args \in {a \in [mode : {"sync", "async"},
                        origin : {"arr", "genfn", "agenfn"},
                        S : Seqs, case : ErrCases] :
                    a.origin \in Origins(a.mode)}
    /\ refs = [a |-> 0, z |-> 0]
    /\ result = [thrown |-> FALSE, value |-> Undef, again |-> NoOutcome]

ErrNew ==
    /\ pc = "new"
    /\ Keep(Wrap(W, args.mode, args.origin, Nums(args.S)), "a")
    /\ pc' = "stage"
    /\ UNCHANGED <<args, result>>

\* .map(boom2) or .filter(odd2)
ErrStage ==
    /\ pc = "stage"
    /\ args.case \in {"map", "filter"}
    /\ Keep(CASE args.mode = "sync" /\ args.case = "map" -> Map(W, refs.a, "boom2")
              [] args.mode = "sync" /\ args.case = "filter" -> Filter(W, refs.a, "odd2")
              [] args.mode = "async" /\ args.case = "map" -> AMap(W, refs.a, "boom2")
              [] args.mode = "async" /\ args.case = "filter" -> AFilter(W, refs.a, "odd2"),
            "z")
    /\ pc' = "drive"
    /\ UNCHANGED <<args, result>>

ErrOutcome(r) ==
    /\ SetWorld(r.w)
    /\ result' = [result EXCEPT !.thrown = r.thrown, !.value = r.value]

\* the terminal consumer: toArray() on the stage, or reduce / all / any
\* with the throwing function
ErrConsume(w, mode, case) ==
    CASE mode = "sync" /\ case \in {"map", "filter"} -> ToArray(w, refs.z)
      [] mode = "sync" /\ case = "reduce" -> Reduce(w, refs.a, "addB", Num(0))
      [] mode = "sync" /\ case = "all" -> All(w, refs.a, "odd2")
      [] mode = "sync" /\ case = "any" -> Any(w, refs.a, "gt1b")
      [] mode = "async" /\ case \in {"map", "filter"} -> AToArray(w, refs.z)
      [] mode = "async" /\ case = "reduce" -> AReduce(w, refs.a, "addB", Num(0))
      [] mode = "async" /\ case = "all" -> AAll(w, refs.a, "odd2")
      [] mode = "async" /\ case = "any" -> AAny(w, refs.a, "gt1b")

ErrDrive ==
    /\ \/ pc = "drive"
       \/ pc = "stage" /\ args.case \notin {"map", "filter"}
    /\ ErrOutcome(ErrConsume(W, args.mode, args.case))
    /\ pc' = "driven"
    /\ UNCHANGED <<args, refs>>

\* the cursor of the stage the failure went through: the generator of
\* map / filter, or the generator the consumer was traversing (a consumer
\* traversing an array holds the only reference to its cursor)
StageCursor ==
    IF args.case \in {"map", "filter"} THEN heap[refs.z].src.n
    ELSE IF heap[refs.a].src.k \in {"gen", "agen"} THEN heap[refs.a].src.n
    ELSE 0

ErrAsked(r) ==
    /\ SetWorld(r.w)
    /\ result' = [result EXCEPT !.again = Settled(r)]

\* one more next() on the aborted cursor
ErrAgain ==
    /\ pc = "driven"
    /\ result.thrown
    /\ StageCursor # 0
    /\ ErrAsked(AIterNext(W, StageCursor))
    /\ pc' = "again"
    /\ UNCHANGED <<args, refs>>

ErrNextAction == ErrNew \/ ErrStage \/ ErrDrive \/ ErrAgain

SpecErr == ErrInit /\ [][ErrNextAction]_vars

\* the one request made after the failure, when it is the cursor id it
\* was made on
Asked(id) == IF pc = "again" /\ id = StageCursor THEN 1 ELSE 0

HasBad(s) == \E k \in 1..Len(s) : s[k] = 2

FirstBad(s) == CHOOSE k \in 1..Len(s) : s[k] = 2 /\ \A j \in 1..(k - 1) : s[j] # 2

\* C6: when the supplied function throws on the k-th element, the consumer
\* ends with that same error and no result, the function has been called k
\* times, the source has been asked for k elements and no more, and one
\* more request on the aborted cursor answers done and no request beyond
\* that one reaches the source; when the function never throws, neither does the
\* consumer.
C6_ErrorPropagates ==
    pc \in {"driven", "again"} =>
        /\ result.thrown = HasBad(args.S)
        /\ HasBad(args.S) =>
              /\ result.value = Err(1)
              /\ Len(calls) = FirstBad(args.S)
              /\ calls[Len(calls)][2] = Num(2)
              /\ SourceCursors # {}
              /\ \A id \in SourceCursors : heap[id].reqs = FirstBad(args.S) + Asked(id)
        /\ pc = "again" =>
              result.again = [done |-> TRUE, value |-> Undef, thrown |-> FALSE]

C6_Witness ==
    /\ pc = "again"
    /\ args.mode = "async"
    /\ args.case = "map"
    /\ args.S = <<2, 1>>
    /\ result.thrown
    /\ result.again.done

(***************************************************************************)
(* SpecPred: all / every / any / some with a predicate that never throws.  *)
(***************************************************************************)
PredInit ==
    /\ heap = <<>>
    /\ calls = <<>>
    /\ pc = "new"
    /\ args \in {a \in [mode : {"sync", "async"},
                        origin : {"arr", "genfn", "agenfn"},
                        S : Seqs,
                        which : {"all", "every", "any", "some"},
                        p : {"isOdd", "gt1"}] :
                    a.origin \in Origins(a.mode)}
    /\ refs = [a |-> 0]
    /\ result = [thrown |-> FALSE, value |-> Undef]

PredNew ==
    /\ pc = "new"
    /\ Keep(Wrap(W, args.mode, args.origin, Nums(args.S)), "a")
    /\ pc' = "run"
    /\ UNCHANGED <<args, result>>

PredOutcome(r) ==
    /\ SetWorld(r.w)
    /\ result' = [thrown |-> r.thrown, value |-> r.value]

PredConsume(w, mode, which, p) ==
    CASE mode = "sync" /\ which = "all" -> All(w, refs.a, p)
      [] mode = "sync" /\ which = "every" -> Every(w, refs.a, p)
      [] mode = "sync" /\ which = "any" -> Any(w, refs.a, p)
      [] mode = "sync" /\ which = "some" -> Some(w, refs.a, p)
      [] mode = "async" /\ which = "all" -> AAll(w, refs.a, p)
      [] mode = "async" /\ which = "every" -> AEvery(w, refs.a, p)
      [] mode = "async" /\ which = "any" -> AAny(w, refs.a, p)
      [] mode = "async" /\ which = "some" -> ASome(w, refs.a, p)

PredRun ==
    /\ pc = "run"
    /\ PredOutcome(PredConsume(W, args.mode, args.which, args.p))
    /\ pc' = "done"
    /\ UNCHANGED <<args, refs>>

PredNextAction == PredNew \/ PredRun

SpecPred == PredInit /\ [][PredNextAction]_vars

\* the predicate on a number
Satisfies(p, x) == IF p = "isOdd" THEN x % 2 = 1 ELSE x > 1

\* the element decides the answer: it fails pred (all), it satisfies it (any)
Decides(x) ==
    IF args.which \in {"all", "every"} THEN ~Satisfies(args.p, x)
    ELSE Satisfies(args.p, x)

Decided == \E i \in 1..Len(args.S) : Decides(args.S[i])

FirstDeciding ==
    CHOOSE i \in 1..Len(args.S) :
        Decides(args.S[i]) /\ \A j \in 1..(i - 1) : ~Decides(args.S[j])

\* C7: all / every answers false exactly when some element fails pred and
\* any / some answers true exactly when some element satisfies it; pred is
\* called on the elements up to the first deciding one and on no other,
\* the source is asked for no element after it, and on an empty source
\* pred is not called.
C7_ShortCircuit ==
    pc = "done" =>
        /\ ~result.thrown
        /\ result.value = Bool(IF args.which \in {"all", "every"}
                               THEN ~Decided ELSE Decided)
        /\ calls = [i \in 1..(IF Decided THEN FirstDeciding ELSE Len(args.S))
                        |-> <<args.p, Num(args.S[i])>>]
        /\ SourceCursors # {}
        /\ \A id \in SourceCursors :
              heap[id].reqs = IF Decided THEN FirstDeciding ELSE Len(args.S) + 1

C7_Witness ==
    /\ pc = "done"
    /\ args.which = "all"
    /\ args.p = "isOdd"
    /\ args.S = <<2, 1>>
    /\ result.value = Bool(FALSE)
    /\ Len(calls) = 1

(***************************************************************************)
(* SpecEq: the same operation on the same elements through FluentIterable  *)
(* and through FluentAsyncIterable.                                        *)
(***************************************************************************)
EqOps == {"toArray", "map", "filter", "concat", "enumerate", "zip", "flat",
          "reduce", "all", "any"}

EqInit ==
    /\ heap = <<>>
    /\ calls = <<>>
    /\ pc = "start"
    /\ args \in {a \in [op : EqOps, origin : {"arr", "genfn"},
                        S : Seqs, T : Seqs] :
                    a.op \notin TwoSeqOps => a.T = <<>>}
    /\ refs = [a |-> 0]
    /\ result = [sync |-> NoOutcome, async |-> NoOutcome]

Driven(z) == ToArray(z.w, z.id)

ADriven(z) == AToArray(z.w, z.id)

\* wrapper.op(...) and, for a transformation, .toArray()
SyncRun(c, op, other) ==
    CASE op = "toArray" -> ToArray(c.w, c.id)
      [] op = "reduce" -> Reduce(c.w, c.id, "add", Num(0))
      [] op = "all" -> All(c.w, c.id, "isOdd")
      [] op = "any" -> Any(c.w, c.id, "gt1")
      [] OTHER -> Driven(Transform(c.w, c.id, op, other))

AsyncRun(c, op, other) ==
    CASE op = "toArray" -> AToArray(c.w, c.id)
      [] op = "reduce" -> AReduce(c.w, c.id, "add", Num(0))
      [] op = "all" -> AAll(c.w, c.id, "isOdd")
      [] op = "any" -> AAny(c.w, c.id, "gt1")
      [] OTHER -> ADriven(ATransform(c.w, c.id, op, other))

\* the asynchronous run is given `other` as an async generator object g
AsyncWith(g) ==
    AsyncRun(AConstruct(g.w, Source("agenfn",
                                    SourceItems(args.op, args.S, args.T))),
             args.op, Ref("agen", g.id))

EqStored(side, r) ==
    /\ SetWorld(r.w)
    /\ result' = [result EXCEPT ![side] = Settled(r)]

EqSync ==
    /\ pc \in {"start", "async"}
    /\ EqStored("sync",
                SyncRun(Construct(World(<<>>, <<>>),
                                  Source(args.origin,
                                         SourceItems(args.op, args.S, args.T))),
                        args.op, Arr(Nums(args.T))))
    /\ pc' = IF pc = "start" THEN "sync" ELSE "both"
    /\ UNCHANGED <<args, refs>>

EqAsync ==
    /\ pc \in {"start", "sync"}
    /\ EqStored("async",
                AsyncWith(Invoke(World(<<>>, <<>>),
                                 AGenFn("src", Arr(Nums(args.T)), Undef, ""))))
    /\ pc' = IF pc = "start" THEN "async" ELSE "both"
    /\ UNCHANGED <<args, refs>>

EqNextAction == EqSync \/ EqAsync

SpecEq == EqInit /\ [][EqNextAction]_vars

\* C9: for the same elements and the same pure function, each of toArray,
\* map, filter, concat, enumerate, zip, flat, reduce, all and any gives
\* through FluentAsyncIterable, once awaited, the result it gives through
\* FluentIterable.
C9_SameResult ==
    pc = "both" => result.sync = result.async /\ ~result.sync.thrown

C9_Witness ==
    /\ pc = "both"
    /\ args.op = "flat"
    /\ args.S = <<1, 2>>
    /\ args.T = <<2>>
    /\ result.async.value = Arr(<<Num(1), Num(2), Num(2)>>)

(***************************************************************************)
(* SpecAsync: an asynchronous transformation driven by toArray(), followed *)
(* request by request: the generator body calls next() on its sources,     *)
(* suspends at its await, the requests settle in any order, and the body   *)
(* goes on when all it awaits has settled.                                 *)
(***************************************************************************)
AsyncInit ==
    /\ heap = <<>>
    /\ calls = <<>>
    /\ pc = "new"
    /\ args \in {a \in [op : Transformations, S : Seqs, T : Seqs] :
                    a.op \notin TwoSeqOps => a.T = <<>>}
    /\ refs = [a |-> 0, z |-> 0, it |-> 0, reqs |-> <<>>]
    /\ result = [items |-> <<>>, settled |-> <<0, 0>>]

AsyncNew ==
    /\ pc = "new"
    /\ Keep(AConstruct(W, Source("agenfn",
                                 SourceItems(args.op, args.S, args.T))), "a")
    /\ pc' = "build"
    /\ UNCHANGED <<args, result>>

\* a.op(other), other being the async generator object g
AsyncBuilt(g) == Keep(ATransform(g.w, refs.a, args.op, Ref("agen", g.id)), "z")

AsyncBuild ==
    /\ pc = "build"
    /\ AsyncBuilt(Invoke(W, AGenFn("src", Arr(Nums(args.T)), Undef, "")))
    /\ pc' = "run"
    /\ UNCHANGED <<args, result>>

\* next() resumes the generator, which runs to the head of its loop
AsyncResumed(s) ==
    [w |-> AResume(Requested(s.w, s.id), s.id), id |-> s.id]

\* toArray() obtains the cursor and makes its first request
AsyncRunning ==
    /\ pc = "run"
    /\ Keep(AsyncResumed(AIterator(W, refs.z)), "it")
    /\ pc' = "head"
    /\ UNCHANGED <<args, result>>

AsyncIssued(r) ==
    /\ SetWorld(r.w)
    /\ refs' = [refs EXCEPT !.reqs = Append(@, [out |-> Settled(r),
                                                settled |-> FALSE])]

\* the body calls next() on the next cursor it is going to await
AsyncCall ==
    /\ pc = "head"
    /\ ~ALoopExit(W, refs.it)
    /\ Len(refs.reqs) < Len(APending(W, refs.it))
    /\ AsyncIssued(AIterNext(W, APending(W, refs.it)[Len(refs.reqs) + 1]))
    /\ UNCHANGED <<pc, args, result>>

\* every call is made: the body suspends at its await
AsyncAwait ==
    /\ pc = "head"
    /\ ~ALoopExit(W, refs.it)
    /\ Len(refs.reqs) = Len(APending(W, refs.it))
    /\ pc' = "await"
    /\ UNCHANGED <<heap, calls, args, refs, result>>

\* the j-th request made in this round settles
AsyncSettle(j) ==
    /\ pc \in {"head", "await"}
    /\ j \in 1..Len(refs.reqs)
    /\ ~refs.reqs[j].settled
    /\ refs' = [refs EXCEPT !.reqs[j].settled = TRUE]
    /\ result' = [result EXCEPT !.settled[j] = @ + 1]
    /\ UNCHANGED <<heap, calls, pc, args>>

AsyncJoined(s) ==
    /\ SetWorld(s.w)
    /\ result' = IF s.kind = "yield"
                 THEN [result EXCEPT !.items = Append(@, s.value)]
                 ELSE result
    /\ pc' = CASE s.kind = "loop" -> "head"
               [] s.kind = "yield" -> "yielded"
               [] OTHER -> "done"

\* all the awaited requests have settled: the body goes on
AsyncJoin ==
    /\ pc = "await"
    /\ \A j \in 1..Len(refs.reqs) : refs.reqs[j].settled
    /\ AsyncJoined(ABody(W, refs.it, [j \in 1..Len(refs.reqs) |-> refs.reqs[j].out]))
    /\ refs' = [refs EXCEPT !.reqs = <<>>]
    /\ UNCHANGED args

\* toArray() pushes the element and requests the next one
AsyncTake ==
    /\ pc = "yielded"
    /\ SetWorld(AResume(Requested(W, refs.it), refs.it))
    /\ pc' = "head"
    /\ UNCHANGED <<args, refs, result>>

\* flat's stack is empty: the generator returns
AsyncEnd ==
    /\ pc = "head"
    /\ ALoopExit(W, refs.it)
    /\ SetWorld(Complete(W, refs.it))
    /\ pc' = "done"
    /\ UNCHANGED <<args, refs, result>>

AsyncNextAction ==
    \/ AsyncNew
    \/ AsyncBuild
    \/ AsyncRunning
    \/ AsyncCall
    \/ AsyncAwait
    \/ \E j \in 1..2 : AsyncSettle(j)
    \/ AsyncJoin
    \/ AsyncTake
    \/ AsyncEnd

SpecAsync == AsyncInit /\ [][AsyncNextAction]_vars

\* the requests made and not yet settled
Outstanding == {j \in 1..Len(refs.reqs) : ~refs.reqs[j].settled}

\* next() calls zip has made on its first and second source
ZipIssued == <<heap[heap[refs.it].it].reqs, heap[heap[refs.it].it2].reqs>>

\* C8: in the asynchronous zip, whenever the body is suspended at its
\* await both sources' requests of the round have been made; no source is
\* sent its request of round i+1 before both requests of round i have
\* settled; in whatever order the two settle, the pairs emitted are
\* (S[i], other[i]) up to the shorter length; every other asynchronous
\* transformation has at most one request outstanding.
C8_ZipRounds ==
    pc \in {"head", "await", "yielded", "done"} =>
        /\ args.op = "zip" =>
              /\ pc = "await" => Len(refs.reqs) = 2
              /\ \A j \in 1..2 : \A k \in 1..2 :
                    ZipIssued[j] <= result.settled[k] + 1
              /\ IsPrefix(result.items, Pairs(args.S, args.T))
              /\ pc = "done" => result.items = Pairs(args.S, args.T)
        /\ args.op # "zip" =>
              /\ Len(refs.reqs) <= 1
              /\ Cardinality(Outstanding) <= 1
              /\ IsPrefix(result.items, Expected(args.op, args.S, args.T))

C8_Witness ==
    /\ pc = "await"
    /\ args.op = "zip"
    /\ args.S = <<1, 2>>
    /\ args.T = <<2, 1>>
    /\ Len(result.items) = 1
    /\ refs.reqs[2].settled
    /\ ~refs.reqs[1].settled
====
